---- MODULE Spec2Model ----
(***************************************************************************)
(* A model of pdfmanip.py: the page-range resolver parse_page_range and    *)
(* the file operations built on it, and of pdfcrop.py: the centred crop.   *)
(* Strings are sequences of one-char strings, so that strip, lower, split  *)
(* and int are modelled by what they do to the characters.                 *)
(***************************************************************************)
EXTENDS Integers, Sequences, FiniteSets, TLC

VARIABLES
    range_str,    \* the resolver's call: the range expression
    total_pages,  \* the resolver's call: the page count
    result,       \* what parse_page_range returned or raised
    pc,           \* "call" / "return" for the resolver, "start" / "done" for a command
    disk0,        \* the disk when the command starts
    disk,         \* the disk now
    op,           \* the command that ran and its arguments
    log,          \* the file-system events of the command, in order
    exit,         \* how the command ended
    reader_pages, \* the crop: the pages of the input, each with its boxes
    target_inches,\* the crop: the target width and height in inches
    writer_pages, \* the crop: the pages added to the writer so far
    output_pdf    \* the crop: the output file

crop_vars == <<reader_pages, target_inches, writer_pages, output_pdf>>

vars == <<range_str, total_pages, result, pc, disk0, disk, op, log, exit,
          reader_pages, target_inches, writer_pages, output_pdf>>

(***************************************************************************)
(* Bounds of the model.                                                    *)
(***************************************************************************)
\* the largest page count of a document
MaxPages == 3
\* the largest number of comma-separated terms of a generated expression
MaxTerms == 3
\* the largest page count of a file on the disk
MaxDocPages == 2
\* the largest number of inputs of a merge
MaxInputs == 3
\* the largest page count of a document given to the crop
MaxCropPages == 2

(***************************************************************************)
(* Python's str and int on character sequences.                            *)
(***************************************************************************)
Digits == <<"0", "1", "2", "3", "4", "5", "6", "7", "8", "9">>

IsDigit(c) == \E i \in 1..10 : Digits[i] = c

DigitVal(c) == (CHOOSE i \in 1..10 : Digits[i] = c) - 1

\* str.lower() on one character (the letters of the model's alphabet)
LowerChar(c) ==
    CASE c = "A" -> "a"
      [] c = "L" -> "l"
      [] c = "E" -> "e"
      [] c = "N" -> "n"
      [] c = "D" -> "d"
      [] c = "X" -> "x"
      [] OTHER -> c

\* str.lower()
Lower(s) == [i \in 1..Len(s) |-> LowerChar(s[i])]

IsSpace(c) == c = " "

RECURSIVE LStrip(_)
LStrip(s) ==
    IF s # <<>> /\ IsSpace(Head(s)) THEN LStrip(Tail(s)) ELSE s

RECURSIVE RStrip(_)
RStrip(s) ==
    IF s # <<>> /\ IsSpace(s[Len(s)]) THEN RStrip(SubSeq(s, 1, Len(s) - 1)) ELSE s

\* str.strip()
Strip(s) == RStrip(LStrip(s))

\* str.find(c) + 1: the index of the first c in s, 0 when there is none
RECURSIVE FindFrom(_, _, _)
FindFrom(s, c, i) ==
    IF i > Len(s) THEN 0
    ELSE IF s[i] = c THEN i
    ELSE FindFrom(s, c, i + 1)

Find(s, c) == FindFrom(s, c, 1)

\* c in s
Contains(s, c) == Find(s, c) # 0

\* str.split(sep): always at least one piece
RECURSIVE Split(_, _)
Split(s, sep) ==
    LET k == Find(s, sep)
    IN  IF k = 0 THEN <<s>>
        ELSE <<SubSeq(s, 1, k - 1)>> \o Split(SubSeq(s, k + 1, Len(s)), sep)

\* str.split(sep, 1) of a string that contains sep: the text before and after
\* the first sep
SplitOnce(s, sep) ==
    LET k == Find(s, sep)
    IN  <<SubSeq(s, 1, k - 1), SubSeq(s, k + 1, Len(s))>>

RECURSIVE DigitsValue(_, _)
DigitsValue(s, acc) ==
    IF s = <<>> THEN acc
    ELSE DigitsValue(Tail(s), 10 * acc + DigitVal(Head(s)))

AllDigits(s) == s # <<>> /\ \A i \in 1..Len(s) : IsDigit(s[i])

\* int(s): surrounding whitespace ignored, an optional sign, then digits;
\* anything else raises ValueError (ok = FALSE).  The underscores int() allows
\* between digits, and whitespace other than the space, are not in the
\* alphabet of the model.
IntOf(s) ==
    LET t == Strip(s)
        signed == t # <<>> /\ Head(t) \in {"-", "+"}
        body == IF signed THEN Tail(t) ELSE t
    IN  IF AllDigits(body)
        THEN [ok |-> TRUE,
              val |-> IF signed /\ Head(t) = "-"
                      THEN 0 - DigitsValue(body, 0)
                      ELSE DigitsValue(body, 0)]
        ELSE [ok |-> FALSE, val |-> 0]

S_end == <<"e", "n", "d">>
S_all == <<"a", "l", "l">>

(***************************************************************************)
(* parse_page_range                                                        *)
(***************************************************************************)
Returned(v) == [raised |-> FALSE, err |-> "", val |-> v]
Raised(e) == [raised |-> TRUE, err |-> e, val |-> <<>>]

\* sorted(list(indices))
RECURSIVE SortedList(_)
SortedList(S) ==
    IF S = {} THEN <<>>
    ELSE LET m == CHOOSE x \in S : \A y \in S : x <= y
         IN  <<m>> \o SortedList(S \ {m})

\* the keyword test without the lower-casing
IsAll_caseSensitive(s) == Strip(s) = S_all

\* range_str.strip().lower() == "all"
IsAll(s) == Lower(Strip(s)) = S_all

\* list(range(total_pages))
AllPages(n) == [i \in 1..n |-> i - 1]

\* total_pages if tok == 'end' else int(tok)
Endpoint(tok, n) ==
    IF tok = S_end THEN [ok |-> TRUE, val |-> n] ELSE IntOf(tok)

\* the bounds check without its upper bound
BoundsError_noUpperBound(start, end, n) ==
    IF ~(1 <= start /\ 1 <= end) THEN "out of bounds" ELSE ""

\* the bounds check of a resolved 1-indexed value pair (a single page is the
\* pair (p, p)): "" when nothing is raised
BoundsError(start, end, n) ==
    IF ~(1 <= start /\ start <= n /\ 1 <= end /\ end <= n)
    THEN IF n = 0 /\ (start # 0 \/ end # 0) THEN "out of bounds for an empty PDF"
         ELSE IF n > 0 THEN "out of bounds"
         ELSE ""
    ELSE ""

\* the positions of a range without the swap of reversed endpoints
RangeIndices_noSwap(start, end) == {i - 1 : i \in start..end}

\* the swap of a reversed range and the 0-indexed positions it adds
RangeIndices(start, end) ==
    LET lo == IF start > end THEN end ELSE start
        hi == IF start > end THEN start ELSE end
    IN  {i - 1 : i \in lo..hi}

\* one stripped, lower-cased, non-empty term: what it raises or adds
ParsePart(part, n) ==
    IF Contains(part, "-")
    THEN LET se == SplitOnce(part, "-")
             start == Endpoint(se[1], n)
             end == Endpoint(se[2], n)
         IN  IF ~start.ok \/ ~end.ok
             THEN [raised |-> TRUE, err |-> "invalid page number", add |-> {}]
             ELSE IF BoundsError(start.val, end.val, n) # ""
             THEN [raised |-> TRUE, err |-> BoundsError(start.val, end.val, n),
                   add |-> {}]
             ELSE [raised |-> FALSE, err |-> "",
                   add |-> RangeIndices(start.val, end.val)]
    ELSE LET page_num == Endpoint(part, n)
         IN  IF ~page_num.ok
             THEN [raised |-> TRUE, err |-> "invalid page number", add |-> {}]
             ELSE IF BoundsError(page_num.val, page_num.val, n) # ""
             THEN [raised |-> TRUE,
                   err |-> BoundsError(page_num.val, page_num.val, n), add |-> {}]
             ELSE [raised |-> FALSE, err |-> "", add |-> {page_num.val - 1}]

\* the loop over the comma-separated parts, from part k on
RECURSIVE ParseParts(_, _, _, _)
ParseParts(parts, k, indices, n) ==
    IF k > Len(parts) THEN Returned(SortedList(indices))
    ELSE LET part == Lower(Strip(parts[k]))
         IN  IF part = <<>> THEN ParseParts(parts, k + 1, indices, n)
             ELSE LET r == ParsePart(part, n)
                  IN  IF r.raised THEN Raised(r.err)
                      ELSE ParseParts(parts, k + 1, indices \cup r.add, n)

parse_page_range(s, n) ==
    IF s = <<>> THEN Returned(<<>>)
    ELSE IF IsAll(s) THEN Returned(AllPages(n))
    ELSE ParseParts(Split(s, ","), 1, {}, n)

(***************************************************************************)
(* The file system and the PDF library as the operations use them.  A disk *)
(* maps each existing path to its content; a readable PDF is its sequence  *)
(* of pages.  The library reads a whole file when it opens it (PdfReader,  *)
(* PdfMerger.append), so a reader keeps the pages it saw.                  *)
(***************************************************************************)
Pdf(pages) == [kind |-> "pdf", pages |-> pages]

\* a file of zero bytes
ZeroBytes == [kind |-> "zero", pages |-> <<>>]

\* a file that is no readable PDF
Corrupt == [kind |-> "corrupt", pages |-> <<>>]

\* a file opened for writing whose write did not finish
Partial == [kind |-> "partial", pages |-> <<>>]

\* os.path.exists
Exists(d, p) == p \in DOMAIN d

Put(d, p, c) == [q \in (DOMAIN d) \cup {p} |-> IF q = p THEN c ELSE d[q]]

\* os.remove
Remove(d, p) == [q \in (DOMAIN d) \ {p} |-> d[q]]

\* one file-system event of an operation
Ev(e, p, q) == [ev |-> e, path |-> p, to |-> q]

\* what an operation leaves: the disk, its file-system events in order, and
\* how it ended ("ok", "refused", another early return, or the exception it
\* caught)
Out(d, l, x) == [disk |-> d, log |-> l, exit |-> x]

\* PdfReader(path): FileNotFoundError, PdfReadError, or the pages
PdfReader(d, p) ==
    IF ~Exists(d, p) THEN [err |-> "FileNotFoundError", pages |-> <<>>]
    ELSE IF d[p].kind # "pdf" THEN [err |-> "PdfReadError", pages |-> <<>>]
    ELSE [err |-> "", pages |-> d[p].pages]

\* the exceptions a write of the output may raise; "none": it succeeds
Faults == {"none", "FileNotFoundError", "PdfReadError", "ValueError", "OSError"}

\* the name of the temporary file NamedTemporaryFile creates in the output's
\* directory, and of the one it creates in the system's directory
TmpOut == "tmp_out.pdf"
TmpSrc == "/tmp/tmp_src.pdf"

\* writer.add_page(reader.pages[index]) for each index
PagesAt(pages, idxs) == [k \in 1..Len(idxs) |-> pages[idxs[k] + 1]]

\* open(path, "wb") and writer.write: the file is created or truncated, then
\* written; a write that raises leaves it as it was opened
WriteDirect(d, l, p, pages, fault) ==
    IF fault = "none"
    THEN Out(Put(d, p, Pdf(pages)),
             l \o <<Ev("open_wb", p, ""), Ev("write", p, "")>>, "ok")
    ELSE Out(Put(d, p, Partial), l \o <<Ev("open_wb", p, "")>>, fault)

\* shutil.copyfile
CopyFile(d, l, src, dst) ==
    Out(Put(d, dst, d[src]), l \o <<Ev("copy", src, dst)>>, "ok")

(***************************************************************************)
(* extract_pdf_pages                                                       *)
(***************************************************************************)
\* extraction onto its own input, whatever the overwrite flag
ExtractSamePath(input, output) == input = output

ExtractRefused(d, output, overwrite) == Exists(d, output) /\ ~overwrite

extract_pdf_pages(d, input, output, rng, overwrite, fault) ==
    IF ExtractSamePath(input, output) THEN Out(d, <<>>, "refused")
    ELSE IF ExtractRefused(d, output, overwrite) THEN Out(d, <<>>, "refused")
    ELSE LET reader == PdfReader(d, input)
             l1 == <<Ev("read", input, "")>>
             n == Len(reader.pages)
         IN  IF reader.err # "" THEN Out(d, <<>>, reader.err)
             ELSE IF n = 0 /\ ~IsAll(rng) /\ Strip(rng) # <<>>
             THEN Out(d, l1, "empty_input")
             ELSE IF n = 0 THEN WriteDirect(d, l1, output, <<>>, fault)
             ELSE LET sel == parse_page_range(rng, n)
                  IN  IF sel.raised THEN Out(d, l1, "ValueError")
                      ELSE IF sel.val = <<>>
                      THEN WriteDirect(d, l1, output, <<>>, fault)
                      ELSE WriteDirect(d, l1, output,
                                       PagesAt(reader.pages, sel.val), fault)

(***************************************************************************)
(* cut_pdf_pages                                                           *)
(***************************************************************************)
\* the pages kept, in order, but with the test of the loop inverted
CutKept_inverted(pages, cut) ==
    LET keep == SortedList({i \in 0..(Len(pages) - 1) : i \in cut})
    IN  PagesAt(pages, keep)

\* the pages a cut keeps: those whose index is not in the cut set, in order
CutKept(pages, cut) ==
    LET keep == SortedList({i \in 0..(Len(pages) - 1) : i \notin cut})
    IN  PagesAt(pages, keep)

CutRefused(d, input, output, overwrite) ==
    \/ input = output /\ ~overwrite
    \/ input # output /\ Exists(d, output) /\ ~overwrite

\* the in-place write: a temporary file beside the input, moved over it; the
\* temporary file is removed only by the handler of the other exceptions
CutWriteInPlace(d, l, input, pages, fault) ==
    LET l2 == l \o <<Ev("mktemp", TmpOut, "")>>
    IN  IF fault = "none"
        THEN Out(Put(Remove(d, TmpOut), input, Pdf(pages)),
                 l2 \o <<Ev("write", TmpOut, ""), Ev("move", TmpOut, input)>>,
                 "ok")
        ELSE IF fault \in {"FileNotFoundError", "PdfReadError", "ValueError"}
        THEN Out(Put(d, TmpOut, Partial), l2, fault)
        ELSE Out(d, l2 \o <<Ev("remove", TmpOut, "")>>, fault)

\* the set of indices to cut
CutSet(sel) == {sel.val[k] : k \in 1..Len(sel.val)}

\* nothing to write: the input is copied to another output, or left alone
CutUnchanged(d, l, input, output) ==
    IF input # output THEN CopyFile(d, l, input, output) ELSE Out(d, l, "ok")

\* from the resolved range on
CutPages(d, l, input, output, pages, sel, fault) ==
    IF sel.raised THEN Out(d, l, "ValueError")
    ELSE IF CutSet(sel) = {}
    THEN CutUnchanged(d, l, input, output)
    ELSE IF Len(CutKept(pages, CutSet(sel))) # 0
            /\ Len(CutKept(pages, CutSet(sel))) = Len(pages)
    THEN CutUnchanged(d, l, input, output)
    ELSE IF input = output
    THEN CutWriteInPlace(d, l, input, CutKept(pages, CutSet(sel)), fault)
    ELSE WriteDirect(d, l, output, CutKept(pages, CutSet(sel)), fault)

cut_pdf_pages(d, input, output, rng, overwrite, fault) ==
    IF PdfReader(d, input).err # "" THEN Out(d, <<>>, PdfReader(d, input).err)
    ELSE IF CutRefused(d, input, output, overwrite)
    THEN Out(d, <<Ev("read", input, "")>>, "refused")
    ELSE IF Len(PdfReader(d, input).pages) = 0
    THEN CutUnchanged(d, <<Ev("read", input, "")>>, input, output)
    ELSE CutPages(d, <<Ev("read", input, "")>>, input, output,
                  PdfReader(d, input).pages,
                  parse_page_range(rng, Len(PdfReader(d, input).pages)), fault)

(***************************************************************************)
(* paste_pdf_pages                                                         *)
(***************************************************************************)
PasteRefused(d, target, source, output, overwrite) ==
    LET alias == output = target \/ output = source
    IN  \/ alias /\ ~overwrite
        \/ ~alias /\ Exists(d, output) /\ ~overwrite

\* the insert position without the append position
InsertPositionOk_noAppend(at, n) == 1 <= at /\ at <= n

\* 1 <= insert_before_page <= num_target_pages + 1
InsertPositionOk(at, n) == 1 <= at /\ at <= n + 1

\* PdfMerger.merge(position, fileobj): the pages of fileobj enter the list
\* before the page at the 0-indexed position
MergerMerge(pages, position, src) ==
    SubSeq(pages, 1, position) \o src \o SubSeq(pages, position + 1, Len(pages))

\* the source pages to paste: err is the exception of the range, none says
\* that nothing is pasted, temp that the pages went through the temporary
\* subset file.  A range of None and the empty string are both falsy.
PasteSource(src_pages, has_range, rng) ==
    LET ns == Len(src_pages)
        nothing == [err |-> "", none |-> TRUE, pages |-> <<>>, temp |-> FALSE]
    IN  IF has_range /\ rng # <<>>
        THEN IF ns = 0 THEN nothing
             ELSE LET sel == parse_page_range(rng, ns)
                  IN  IF sel.raised
                      THEN [err |-> "ValueError", none |-> TRUE, pages |-> <<>>,
                            temp |-> FALSE]
                      ELSE IF sel.val = <<>> THEN nothing
                      ELSE [err |-> "", none |-> FALSE,
                            pages |-> PagesAt(src_pages, sel.val), temp |-> TRUE]
        ELSE IF ns = 0 THEN nothing
        ELSE [err |-> "", none |-> FALSE, pages |-> src_pages, temp |-> FALSE]

\* the write over an input: a temporary file beside the output, moved over
\* it; the finally clause removes the temporary file when the write raised
PasteWriteViaTemp(d, l, output, pages, fault) ==
    LET l2 == l \o <<Ev("mktemp", TmpOut, "")>>
    IN  IF fault = "none"
        THEN Out(Put(Remove(d, TmpOut), output, Pdf(pages)),
                 l2 \o <<Ev("write", TmpOut, ""), Ev("move", TmpOut, output)>>,
                 "ok")
        ELSE Out(d, l2 \o <<Ev("remove", TmpOut, "")>>, fault)

\* the pages the merger holds: the target's, with the source pages merged in
PasteMerged(target_pages, at, s) ==
    IF s.none THEN target_pages ELSE MergerMerge(target_pages, at - 1, s.pages)

\* the write of the result, over an input or to another path
PasteWriteOut(d, l, target, source, output, pages, fault) ==
    IF output = target \/ output = source
    THEN PasteWriteViaTemp(d, l, output, pages, fault)
    ELSE WriteDirect(d, l, output, pages, fault)

\* the finally clause: the temporary subset file is removed
PasteFinally(w) ==
    Out(Remove(w.disk, TmpSrc), w.log \o <<Ev("remove", TmpSrc, "")>>, w.exit)

\* from the source selection s on: the subset file, merger.append(target),
\* the merge, the write
PasteSplice(d, l, target, source, output, at, s, fault) ==
    IF s.err # "" THEN Out(d, l, s.err)
    ELSE IF s.temp
    THEN PasteFinally(
             PasteWriteOut(Put(d, TmpSrc, Pdf(s.pages)),
                           l \o <<Ev("mktemp", TmpSrc, ""), Ev("write", TmpSrc, ""),
                                  Ev("read", target, ""), Ev("read", TmpSrc, "")>>,
                           target, source, output,
                           PasteMerged(PdfReader(d, target).pages, at, s), fault))
    ELSE PasteWriteOut(d, l \o <<Ev("read", target, "")>>, target, source, output,
                       PasteMerged(PdfReader(d, target).pages, at, s), fault)

paste_pdf_pages(d, target, source, output, at, has_range, rng, overwrite, fault) ==
    IF PasteRefused(d, target, source, output, overwrite)
    THEN Out(d, <<>>, "refused")
    ELSE IF PdfReader(d, target).err # "" THEN Out(d, <<>>, PdfReader(d, target).err)
    ELSE IF PdfReader(d, source).err # ""
    THEN Out(d, <<Ev("read", target, "")>>, PdfReader(d, source).err)
    ELSE IF ~InsertPositionOk(at, Len(PdfReader(d, target).pages))
    THEN Out(d, <<Ev("read", target, ""), Ev("read", source, "")>>, "out_of_bounds")
    ELSE PasteSplice(d, <<Ev("read", target, ""), Ev("read", source, "")>>,
                     target, source, output, at,
                     PasteSource(PdfReader(d, source).pages, has_range, rng), fault)

(***************************************************************************)
(* split_pdf_pages                                                         *)
(***************************************************************************)
\* os.path.splitext(os.path.basename(path))[0] for the paths of the model
BaseName(p) ==
    CASE p = "a.pdf" -> "a"
      [] p = "b.pdf" -> "b"
      [] p = "o.pdf" -> "o"
      [] OTHER -> p

\* the directory the split writes into
OutDir == "out/"

PageFile(base, i) == OutDir \o base \o "_page_" \o ToString(i) \o ".pdf"

\* replace('-', '_to_').replace(',', '_').replace(' ', '')
RECURSIVE SafeRangeName(_)
SafeRangeName(s) ==
    IF s = <<>> THEN ""
    ELSE (CASE Head(s) = "-" -> "_to_"
            [] Head(s) = "," -> "_"
            [] Head(s) = " " -> ""
            [] OTHER -> Head(s)) \o SafeRangeName(Tail(s))

RangeFile(base, i, s) ==
    OutDir \o base \o "_range_" \o ToString(i) \o "_" \o SafeRangeName(s) \o ".pdf"

SplitSkips(d, name, overwrite) == Exists(d, name) /\ ~overwrite

\* the loop of mode each_page from page i on; acc is what the loop has done
RECURSIVE SplitEachPage(_, _, _, _, _, _)
SplitEachPage(acc, pages, i, base, overwrite, fault) ==
    IF i > Len(pages) THEN Out(acc.disk, acc.log, "ok")
    ELSE IF SplitSkips(acc.disk, PageFile(base, i), overwrite)
    THEN SplitEachPage(acc, pages, i + 1, base, overwrite, fault)
    ELSE LET w == WriteDirect(acc.disk, acc.log, PageFile(base, i),
                              <<pages[i]>>, fault)
         IN  IF w.exit # "ok" THEN w
             ELSE SplitEachPage(w, pages, i + 1, base, overwrite, fault)

\* the loop of mode ranges from the i-th range on
RECURSIVE SplitRanges(_, _, _, _, _, _, _)
SplitRanges(acc, specs, i, pages, base, overwrite, fault) ==
    IF i > Len(specs) THEN Out(acc.disk, acc.log, "ok")
    ELSE LET part == Strip(specs[i])
             sel == parse_page_range(part, Len(pages))
             name == RangeFile(base, i, part)
             w == WriteDirect(acc.disk, acc.log, name, PagesAt(pages, sel.val), fault)
         IN  IF part = <<>>
             THEN SplitRanges(acc, specs, i + 1, pages, base, overwrite, fault)
             ELSE IF sel.raised THEN Out(acc.disk, acc.log, "ValueError")
             ELSE IF sel.val = <<>> \/ SplitSkips(acc.disk, name, overwrite)
             THEN SplitRanges(acc, specs, i + 1, pages, base, overwrite, fault)
             ELSE IF w.exit # "ok" THEN w
             ELSE SplitRanges(w, specs, i + 1, pages, base, overwrite, fault)

\* the output directory is created if missing; directories are not part of
\* the disk
split_pdf_pages(d, input, mode, has_ranges, ranges_csv, overwrite, fault) ==
    LET reader == PdfReader(d, input)
        start == Out(d, <<Ev("read", input, "")>>, "ok")
    IN  IF reader.err # "" THEN Out(d, <<>>, reader.err)
        ELSE IF Len(reader.pages) = 0 THEN Out(d, start.log, "empty_input")
        ELSE IF mode = "each_page"
        THEN SplitEachPage(start, reader.pages, 1, BaseName(input), overwrite, fault)
        ELSE IF mode = "ranges"
        THEN IF ~has_ranges \/ ranges_csv = <<>> THEN Out(d, start.log, "no_ranges")
             ELSE SplitRanges(start, Split(ranges_csv, ";"), 1, reader.pages,
                              BaseName(input), overwrite, fault)
        ELSE Out(d, start.log, "unknown_mode")

(***************************************************************************)
(* merge_pdf_files                                                         *)
(***************************************************************************)
\* the guard without its test for an existing output
MergeRefused_noExistsCheck(d, inputs, output, overwrite) ==
    (\E i \in 1..Len(inputs) : inputs[i] = output) /\ ~overwrite

MergeRefused(d, inputs, output, overwrite) ==
    LET alias == \E i \in 1..Len(inputs) : inputs[i] = output
    IN  \/ alias /\ ~overwrite
        \/ ~alias /\ Exists(d, output) /\ ~overwrite

\* a loop that takes a file without pages for a valid input
MergeUsable_allowsNoPages(d, p) ==
    /\ Exists(d, p)
    /\ d[p].kind # "zero"
    /\ PdfReader(d, p).err = ""

\* a source the loop appends: it exists, has bytes, is readable, has pages
MergeUsable(d, p) ==
    /\ Exists(d, p)
    /\ d[p].kind # "zero"
    /\ PdfReader(d, p).err = ""
    /\ Len(PdfReader(d, p).pages) > 0

\* a loop that puts each input before the ones appended so far
RECURSIVE MergeCollect_prepends(_, _, _, _)
MergeCollect_prepends(d, inputs, i, acc) ==
    IF i > Len(inputs) THEN acc
    ELSE IF MergeUsable(d, inputs[i])
    THEN MergeCollect_prepends(d, inputs, i + 1,
             [pages |-> PdfReader(d, inputs[i]).pages \o acc.pages,
              log |-> acc.log \o <<Ev("read", inputs[i], ""), Ev("read", inputs[i], "")>>,
              valid |-> acc.valid + 1])
    ELSE MergeCollect_prepends(d, inputs, i + 1, acc)

\* the loop over the inputs from the i-th on: the pages appended, the reads
\* and the count of valid inputs
RECURSIVE MergeCollect(_, _, _, _)
MergeCollect(d, inputs, i, acc) ==
    IF i > Len(inputs) THEN acc
    ELSE IF MergeUsable(d, inputs[i])
    THEN MergeCollect(d, inputs, i + 1,
             [pages |-> acc.pages \o PdfReader(d, inputs[i]).pages,
              log |-> acc.log \o <<Ev("read", inputs[i], ""), Ev("read", inputs[i], "")>>,
              valid |-> acc.valid + 1])
    ELSE MergeCollect(d, inputs, i + 1, acc)

merge_pdf_files(d, inputs, output, overwrite, fault) ==
    IF inputs = <<>> THEN Out(d, <<>>, "no_inputs")
    ELSE IF MergeRefused(d, inputs, output, overwrite) THEN Out(d, <<>>, "refused")
    ELSE LET m == MergeCollect(d, inputs, 1, [pages |-> <<>>, log |-> <<>>, valid |-> 0])
         IN  IF m.valid = 0 THEN Out(d, m.log, "no_valid_input")
             ELSE WriteDirect(d, m.log, output, m.pages, fault)

(***************************************************************************)
(* pdfcrop.py: crop_pdf_pages_centered.  Lengths are counted in half       *)
(* points, so that the halves taken by the centring are whole numbers.     *)
(***************************************************************************)
UnitsPerPoint == 2

POINTS_PER_INCH == 72

\* RectangleObject([llx, lly, urx, ury])
RectangleObject(llx, lly, urx, ury) ==
    [llx |-> llx, lly |-> lly, urx |-> urx, ury |-> ury]

\* RectangleObject.width and .height
Width(box) == box.urx - box.llx
Height(box) == box.ury - box.lly

Min(x, y) == IF x < y THEN x ELSE y

\* target_width_points = target_width_inches * POINTS_PER_INCH
TargetPoints(inches) == inches * POINTS_PER_INCH * UnitsPerPoint

\* the crop box a page with this media box is given
CropBox(original_media_box, target_width_points, target_height_points) ==
    LET original_width_points == Width(original_media_box)
        original_height_points == Height(original_media_box)
        actual_crop_width_points == Min(target_width_points, original_width_points)
        actual_crop_height_points == Min(target_height_points, original_height_points)
        new_ll_x == (original_width_points - actual_crop_width_points) \div 2
        new_ll_y == (original_height_points - actual_crop_height_points) \div 2
    IN  RectangleObject(new_ll_x, new_ll_y,
                        new_ll_x + actual_crop_width_points,
                        new_ll_y + actual_crop_height_points)

\* a page as the reader gives it: without a crop box of its own, the crop
\* box is the media box
Page(box) == [mediabox |-> box, cropbox |-> box]

NotWritten == [written |-> FALSE, pages |-> <<>>]

\* no crop is under way
NoCrop ==
    /\ reader_pages = <<>>
    /\ target_inches = [width |-> 0, height |-> 0]
    /\ writer_pages = <<>>
    /\ output_pdf = NotWritten

(***************************************************************************)
(* The inputs of the resolver: expressions built from tokens.              *)
(***************************************************************************)
\* endpoint tokens: numbers, the literal end in both cases and with
\* surrounding spaces, a malformed token, a signed number
Tokens ==
    { <<"0">>, <<"1">>, <<"2">>, <<"3">>, <<"7">>, <<" ", "2", " ">>,
      S_end, <<"E", "N", "D">>, <<" ", "e", "n", "d">>, <<"E", "n", "d", " ">>,
      <<"x">>, <<"-", "1">> }

\* a single term: a token or a pair of tokens around a hyphen
SingleTerms == Tokens \cup { a \o <<"-">> \o b : a \in Tokens, b \in Tokens }

\* the whole-document keyword in several cases, with and without spaces
AllForms ==
    { S_all, <<"A", "L", "L">>, <<"A", "l", "l">>, <<" ", "a", "l", "l">>,
      <<" ", "A", "L", "L", " ", " ">> }

\* the terms of the generated lists: valid pages, a reversed range, an empty
\* term, a malformed one, an out-of-bounds one
ListTerms ==
    { <<"1">>, <<"2">>, <<"3", "-", "2">>, S_end, <<>>, <<"x">>, <<"7">>,
      <<" ", "1", "-", "E", "N", "D">> }

RECURSIVE Join(_)
Join(terms) ==
    IF Len(terms) = 0 THEN <<>>
    ELSE IF Len(terms) = 1 THEN terms[1]
    ELSE terms[1] \o <<",">> \o Join(Tail(terms))

Lists == { Join(ts) : ts \in UNION { [1..k -> ListTerms] : k \in 2..MaxTerms } }

Expressions == {<<>>} \cup AllForms \cup SingleTerms \cup Lists

(***************************************************************************)
(* The resolver as a state machine: a call with drawn inputs, its return.  *)
(***************************************************************************)
NoResult == [raised |-> FALSE, err |-> "pending", val |-> <<>>]

InitResolve ==
    /\ range_str \in Expressions
    /\ total_pages \in 0..MaxPages
    /\ result = NoResult
    /\ pc = "call"
    /\ disk0 = <<>>
    /\ disk = <<>>
    /\ op = <<>>
    /\ log = <<>>
    /\ exit = ""
    /\ NoCrop

Resolve ==
    /\ pc = "call"
    /\ result' = parse_page_range(range_str, total_pages)
    /\ pc' = "return"
    /\ UNCHANGED <<range_str, total_pages, disk0, disk, op, log, exit>>
    /\ UNCHANGED crop_vars

NextResolve == Resolve

SpecResolve == InitResolve /\ [][NextResolve]_vars

(***************************************************************************)
(* One invocation of a command on a disk: the disk before, the command and *)
(* its arguments, and what it left.                                        *)
(***************************************************************************)
UserPaths == {"a.pdf", "b.pdf", "o.pdf"}

\* a path no file has and no command is given
FreshPath == "new.pdf"

\* the pages of a file as it first is: its own pages 1..n
OwnPages(p, n) == [i \in 1..n |-> <<BaseName(p), i>>]

Absent == [kind |-> "absent", pages |-> <<>>]

\* what a path may hold when the command starts
InitialContents(p) ==
    IF p = "o.pdf" THEN {Absent, Pdf(OwnPages(p, 1))}
    ELSE {Absent, ZeroBytes, Corrupt} \cup {Pdf(OwnPages(p, n)) : n \in 0..MaxDocPages}

MkDisk(c) == [p \in {q \in DOMAIN c : c[q] # Absent} |-> c[p]]

UserDisks ==
    { MkDisk([p \in UserPaths |->
                 IF p = "a.pdf" THEN ca ELSE IF p = "b.pdf" THEN cb ELSE co]) :
        ca \in InitialContents("a.pdf"), cb \in InitialContents("b.pdf"),
        co \in InitialContents("o.pdf") }

\* files an earlier split has left in the output directory
StaleFiles == {PageFile("a", 1), RangeFile("a", 1, <<"1">>)}

SplitDisks ==
    { [p \in {"a.pdf"} \cup stale |->
          IF p = "a.pdf" THEN Pdf(OwnPages(p, n)) ELSE Pdf(<<<<"stale", 1>>>>)] :
        n \in 1..MaxDocPages, stale \in SUBSET StaleFiles }

\* the range expressions given to the commands: empty, everything, one page,
\* two pages out of order, a malformed one, one with blank terms only
Ranges ==
    { <<>>, S_all, <<"1">>, <<"2", ",", "1">>, <<"x">>, <<",">> }

\* the range lists given to split: empty, two ranges, a valid range before a
\* malformed one, a blank range before a reversed one
RangeLists ==
    { <<>>, <<"1", ";", "2">>, <<"1", ";", "x">>, <<" ", ";", "2", "-", "1">> }

Inputs(k) == UNION { [1..j -> UserPaths] : j \in 1..k }

NoOp ==
    [name |-> "", input |-> "", source |-> "", output |-> "", inputs |-> <<>>,
     at |-> 0, has_range |-> FALSE, range |-> <<>>, overwrite |-> FALSE,
     mode |-> "", fault |-> "none"]

Init ==
    /\ disk0 \in UserDisks \cup SplitDisks
    /\ disk = disk0
    /\ op = NoOp
    /\ log = <<>>
    /\ exit = ""
    /\ pc = "start"
    /\ range_str = <<>>
    /\ total_pages = 0
    /\ result = NoResult
    /\ NoCrop

Finish(o, r) ==
    /\ op' = o
    /\ disk' = r.disk
    /\ log' = r.log
    /\ exit' = r.exit
    /\ pc' = "done"
    /\ UNCHANGED <<disk0, range_str, total_pages, result>>
    /\ UNCHANGED crop_vars

Extract ==
    /\ pc = "start"
    /\ \E output \in {"a.pdf", "o.pdf"}, rng \in Ranges, ow \in BOOLEAN, f \in Faults :
          Finish([NoOp EXCEPT !.name = "extract", !.input = "a.pdf",
                              !.output = output, !.has_range = TRUE, !.range = rng,
                              !.overwrite = ow, !.fault = f],
                 extract_pdf_pages(disk, "a.pdf", output, rng, ow, f))

Cut ==
    /\ pc = "start"
    /\ \E output \in {"a.pdf", "o.pdf"}, rng \in Ranges, ow \in BOOLEAN, f \in Faults :
          Finish([NoOp EXCEPT !.name = "cut", !.input = "a.pdf",
                              !.output = output, !.has_range = TRUE, !.range = rng,
                              !.overwrite = ow, !.fault = f],
                 cut_pdf_pages(disk, "a.pdf", output, rng, ow, f))

Paste ==
    /\ pc = "start"
    /\ \E output \in UserPaths, at \in 0..(MaxDocPages + 2), hr \in BOOLEAN,
          rng \in Ranges, ow \in BOOLEAN, f \in Faults :
          /\ ~hr => rng = <<>>
          /\ Finish([NoOp EXCEPT !.name = "paste", !.input = "a.pdf",
                                 !.source = "b.pdf", !.output = output, !.at = at,
                                 !.has_range = hr, !.range = rng,
                                 !.overwrite = ow, !.fault = f],
                    paste_pdf_pages(disk, "a.pdf", "b.pdf", output, at, hr, rng, ow, f))

SplitOp ==
    /\ pc = "start"
    /\ \E mode \in {"each_page", "ranges"}, rl \in RangeLists, ow \in BOOLEAN,
          f \in Faults :
          /\ mode = "each_page" => rl = <<>>
          /\ Finish([NoOp EXCEPT !.name = "split", !.input = "a.pdf",
                                 !.output = OutDir, !.mode = mode,
                                 !.has_range = (rl # <<>>), !.range = rl,
                                 !.overwrite = ow, !.fault = f],
                    split_pdf_pages(disk, "a.pdf", mode, rl # <<>>, rl, ow, f))

Merge ==
    /\ pc = "start"
    /\ \E ins \in Inputs(MaxInputs), output \in UserPaths, ow \in BOOLEAN, f \in Faults :
          Finish([NoOp EXCEPT !.name = "merge", !.inputs = ins, !.output = output,
                              !.overwrite = ow, !.fault = f],
                 merge_pdf_files(disk, ins, output, ow, f))

Next == Extract \/ Cut \/ Paste \/ SplitOp \/ Merge

Spec == Init /\ [][Next]_vars


(***************************************************************************)
(* One call of crop_pdf_pages_centered on a readable document: the loop    *)
(* over the pages, then the write of the output.                           *)
(***************************************************************************)
\* the lower-left corners of the media boxes, in points: the origin and a
\* corner away from it
Origins == {0, 36}

\* the widths and heights of the media boxes, in points
Sizes == {72, 101}

\* the target widths and heights, in inches
TargetInches == {1, 2}

MediaBoxes ==
    { RectangleObject(x * UnitsPerPoint, y * UnitsPerPoint,
                      (x + w) * UnitsPerPoint, (y + h) * UnitsPerPoint) :
        x \in Origins, y \in Origins, w \in Sizes, h \in Sizes }

CropDocs == UNION { [1..n -> {Page(b) : b \in MediaBoxes}] : n \in 0..MaxCropPages }

InitCrop ==
    /\ reader_pages \in CropDocs
    /\ target_inches \in [width : TargetInches, height : TargetInches]
    /\ writer_pages = <<>>
    /\ output_pdf = NotWritten
    /\ pc = "crop"
    /\ range_str = <<>>
    /\ total_pages = 0
    /\ result = NoResult
    /\ disk0 = <<>>
    /\ disk = <<>>
    /\ op = <<>>
    /\ log = <<>>
    /\ exit = ""

\* one turn of the loop: the page is given its crop box and added to the
\* writer
CropPage ==
    /\ pc = "crop"
    /\ Len(writer_pages) < Len(reader_pages)
    /\ LET i == Len(writer_pages) + 1
           page == [reader_pages[i] EXCEPT
                       !.cropbox = CropBox(reader_pages[i].mediabox,
                                           TargetPoints(target_inches.width),
                                           TargetPoints(target_inches.height))]
       IN  /\ reader_pages' = [reader_pages EXCEPT ![i] = page]
           /\ writer_pages' = Append(writer_pages, page)
    /\ UNCHANGED <<target_inches, output_pdf, pc>>
    /\ UNCHANGED <<range_str, total_pages, result, disk0, disk, op, log, exit>>

\* after the loop the writer is written to the output
WriteCropped ==
    /\ pc = "crop"
    /\ Len(writer_pages) = Len(reader_pages)
    /\ output_pdf' = [written |-> TRUE, pages |-> writer_pages]
    /\ pc' = "cropped"
    /\ UNCHANGED <<reader_pages, target_inches, writer_pages>>
    /\ UNCHANGED <<range_str, total_pages, result, disk0, disk, op, log, exit>>

NextCrop == CropPage \/ WriteCropped

SpecCrop == InitCrop /\ [][NextCrop]_vars

(***************************************************************************)
(* Claims about the resolver (checked under SpecResolve).                  *)
(***************************************************************************)
Returns == pc = "return" /\ ~result.raised

StrictlyAscending(q) == \A i \in 1..(Len(q) - 1) : q[i] < q[i + 1]

\* the integers lo..hi as a list
FromTo(lo, hi) == [i \in 1..(hi - lo + 1) |-> lo + i - 1]

\* the terms of an expression as the claims count them: the comma-separated
\* pieces that are not blank
TermsOf(s) ==
    LET parts == Split(s, ",")
    IN  { Lower(Strip(parts[k])) : k \in { j \in 1..Len(parts) : Strip(parts[j]) # <<>> } }

\* the tokens of a term: its endpoints around the first hyphen, or itself
TokensOf(term) ==
    IF Contains(term, "-") THEN {SplitOnce(term, "-")[1], SplitOnce(term, "-")[2]}
    ELSE {term}

\* a token that is a base-10 integer or the literal end
WellFormedToken(tok) == Strip(tok) = S_end \/ IntOf(tok).ok

TokenValue(tok, n) == IF Strip(tok) = S_end THEN n ELSE IntOf(tok).val

\* a term that is malformed or resolves outside 1..n
BadTerm(term, n) ==
    \E tok \in TokensOf(term) :
        \/ ~WellFormedToken(tok)
        \/ TokenValue(tok, n) < 1
        \/ TokenValue(tok, n) > n

\* C1: whenever parse_page_range returns a list, the list is strictly
\* ascending (so without duplicates) and every element i has
\* 0 <= i < total_pages, for every total_pages >= 0.
C1_AscendingInBounds ==
    Returns =>
        /\ StrictlyAscending(result.val)
        /\ \A i \in 1..Len(result.val) :
               0 <= result.val[i] /\ result.val[i] < total_pages

\* C2: for total_pages >= 1, an expression (other than the keyword all) with
\* a term that is malformed or out of 1..total_pages, at any position and
\* among any other terms, makes parse_page_range raise and return no
\* position.
C2_AnyBadTermRaises ==
    (/\ pc = "return"
     /\ total_pages >= 1
     /\ range_str \notin AllForms
     /\ \E term \in TermsOf(range_str) : BadTerm(term, total_pages))
        => result.raised /\ result.val = <<>>

\* a bad last term after two valid ones has made the call raise
C2_Witness ==
    /\ pc = "return"
    /\ total_pages = 3
    /\ range_str = Join(<<<<"1">>, <<"3", "-", "2">>, <<"7">>>>)
    /\ result.raised

\* C3: an expression equal to all, in any letter case and with any
\* surrounding whitespace, resolves to [0, ..., total_pages - 1] in that
\* order (the empty list for total_pages = 0) and never raises.
C3_AllResolvesToEveryPage ==
    (pc = "return" /\ range_str \in AllForms)
        => ~result.raised /\ result.val = FromTo(0, total_pages - 1)

C3_Witness ==
    /\ pc = "return"
    /\ range_str = <<" ", "A", "L", "L", " ", " ">>
    /\ total_pages = 3
    /\ result.val = <<0, 1, 2>>

\* the endpoints of C4: unsigned base-10 literals and the literal end, in
\* either case, without padding
EndpointLiterals == { t \in Tokens : AllDigits(t) \/ Lower(t) = S_end }

EndpointValue(t, n) == IF Lower(t) = S_end THEN n ELSE DigitsValue(t, 0)

\* C4: the range terms A-B and B-A have the same outcome: both raise, or
\* both resolve to the positions min(A,B)-1 .. max(A,B)-1.
C4_ReversedRangeSameOutcome ==
    \A a \in EndpointLiterals, b \in EndpointLiterals :
        (pc = "return" /\ range_str = a \o <<"-">> \o b) =>
            LET rev == parse_page_range(b \o <<"-">> \o a, total_pages)
                va == EndpointValue(a, total_pages)
                vb == EndpointValue(b, total_pages)
                lo == IF va < vb THEN va ELSE vb
                hi == IF va < vb THEN vb ELSE va
            IN  /\ result.raised <=> rev.raised
                /\ ~result.raised =>
                       /\ result.val = rev.val
                       /\ result.val = FromTo(lo - 1, hi - 1)

\* the reversed range 3-1 has resolved to the first three positions
C4_Witness ==
    /\ pc = "return"
    /\ range_str = <<"3", "-", "1">>
    /\ total_pages = 3
    /\ result.val = <<0, 1, 2>>

\* C5: with total_pages = 0, every expression other than all that has a
\* non-empty term makes parse_page_range raise; it never returns a non-empty
\* list for an empty document.
C5_EmptyDocumentRaises ==
    (/\ pc = "return"
     /\ total_pages = 0
     /\ range_str \notin AllForms
     /\ TermsOf(range_str) # {})
        => result.raised

(***************************************************************************)
(* Claims about the commands (checked under Spec).                         *)
(***************************************************************************)
Done == pc = "done"

\* the input paths of a command
OpInputs(o) ==
    IF o.name = "paste" THEN {o.input, o.source}
    ELSE IF o.name = "merge" THEN {o.inputs[i] : i \in 1..Len(o.inputs)}
    ELSE {o.input}

\* the command o run on disk d
RunOp(o, d) ==
    CASE o.name = "extract" ->
             extract_pdf_pages(d, o.input, o.output, o.range, o.overwrite, o.fault)
      [] o.name = "cut" ->
             cut_pdf_pages(d, o.input, o.output, o.range, o.overwrite, o.fault)
      [] o.name = "paste" ->
             paste_pdf_pages(d, o.input, o.source, o.output, o.at, o.has_range,
                             o.range, o.overwrite, o.fault)
      [] o.name = "merge" ->
             merge_pdf_files(d, o.inputs, o.output, o.overwrite, o.fault)
      [] OTHER ->
             split_pdf_pages(d, o.input, o.mode, o.has_range, o.range,
                             o.overwrite, o.fault)

\* an event that creates, changes or removes the file at path p
Touches(e, p) ==
    \/ e.ev \in {"open_wb", "write", "mktemp", "remove"} /\ e.path = p
    \/ e.ev = "copy" /\ e.to = p
    \/ e.ev = "move" /\ (e.path = p \/ e.to = p)

NothingTouched == \A i \in 1..Len(log) : log[i].ev = "read"

Readable(d, p) == p \in DOMAIN d /\ d[p].kind = "pdf"

\* the file at path p of disk d is the document c
Holds(d, p, c) == p \in DOMAIN d /\ d[p] = c

\* C6: without overwrite, extract, cut, paste and merge given an output that
\* is an input or an existing file end without writing: no file is created,
\* changed or removed; a split leaves every existing file as it was, skipping
\* only the pages whose file exists and writing the others.
C6_RefusedWriteChangesNothing ==
    (Done /\ ~op.overwrite) =>
        IF op.name = "split"
        THEN /\ \A p \in DOMAIN disk0 :
                    /\ p \in DOMAIN disk
                    /\ disk[p] = disk0[p]
                    /\ \A i \in 1..Len(log) : ~Touches(log[i], p)
             /\ (op.mode = "each_page" /\ op.fault = "none" /\ Readable(disk0, op.input)) =>
                    \A i \in 1..Len(disk0[op.input].pages) :
                        PageFile(BaseName(op.input), i) \notin DOMAIN disk0 =>
                            /\ PageFile(BaseName(op.input), i) \in DOMAIN disk
                            /\ disk[PageFile(BaseName(op.input), i)]
                                   = Pdf(<<disk0[op.input].pages[i]>>)
        ELSE (op.output \in OpInputs(op) \/ op.output \in DOMAIN disk0) =>
                 /\ disk = disk0
                 /\ NothingTouched
                 /\ exit # "ok"

\* a split of two pages has skipped the existing file of page 1 and written
\* the file of page 2
C6_Witness ==
    /\ Done
    /\ op.name = "split"
    /\ op.mode = "each_page"
    /\ ~op.overwrite
    /\ op.fault = "none"
    /\ Holds(disk0, PageFile("a", 1), Pdf(<<<<"stale", 1>>>>))
    /\ Holds(disk, PageFile("a", 1), Pdf(<<<<"stale", 1>>>>))
    /\ PageFile("a", 2) \notin DOMAIN disk0
    /\ Holds(disk, PageFile("a", 2), Pdf(<<<<"a", 2>>>>))

\* the command of this state, given a fresh output path instead
FreshRun == RunOp([op EXCEPT !.output = FreshPath], disk0)

\* the output path holds what the run to a fresh path has written
SameAsFreshRun ==
    FreshRun.exit = "ok" =>
        /\ exit = "ok"
        /\ op.output \in DOMAIN disk
        /\ disk[op.output] = FreshRun.disk[FreshPath]

\* C7: with overwrite, every operation (extract, cut, paste, merge) whose
\* output path is one of its input paths completes and leaves at the output
\* path the document it would have written to a fresh output path.
C7_OverwriteOntoInputAsFresh ==
    (/\ Done
     /\ op.name \in {"extract", "cut", "paste", "merge"}
     /\ op.overwrite
     /\ op.fault = "none"
     /\ op.output \in OpInputs(op))
        => SameAsFreshRun

\* the same for cut, paste and merge alone
C7_CutPasteMergeAsFresh ==
    (/\ Done
     /\ op.name \in {"cut", "paste", "merge"}
     /\ op.overwrite
     /\ op.fault = "none"
     /\ op.output \in OpInputs(op))
        => SameAsFreshRun

\* C8: in cut, paste and merge with overwrite and an output that is an input,
\* the output path is changed only by the move of a temporary file that was
\* written before, and it is never opened for writing before a read of it.
C8_AliasedOutputReplacedViaTemp ==
    (/\ Done
     /\ op.name \in {"cut", "paste", "merge"}
     /\ op.overwrite
     /\ op.output \in OpInputs(op))
        => \A j \in 1..Len(log) :
               /\ Touches(log[j], op.output) =>
                      /\ log[j].ev = "move"
                      /\ log[j].path = TmpOut
                      /\ log[j].to = op.output
                      /\ \E i \in 1..(j - 1) :
                             log[i].ev = "write" /\ log[i].path = TmpOut
               /\ (log[j].ev = "open_wb" /\ log[j].path = op.output) =>
                      \A k \in (j + 1)..Len(log) :
                          ~(log[k].ev = "read" /\ log[k].path = op.output)

\* the pages whose 0-indexed position is not in P, from page i on
RECURSIVE Without(_, _, _)
Without(pages, P, i) ==
    IF i > Len(pages) THEN <<>>
    ELSE (IF (i - 1) \in P THEN <<>> ELSE <<pages[i]>>) \o Without(pages, P, i + 1)

\* C9: a permitted cut of a readable source of n pages with a removal
\* expression resolving to P leaves, at an output other than the input, the
\* source pages whose index is not in P, in order (n - |P| pages); a
\* permitted cut in place with P empty leaves the disk as it was.
C9_CutKeepsTheComplement ==
    (Done /\ op.name = "cut" /\ op.fault = "none" /\ Readable(disk0, op.input)) =>
        LET pages == disk0[op.input].pages
            sel == parse_page_range(op.range, Len(pages))
            P == {sel.val[k] : k \in 1..Len(sel.val)}
        IN  ~sel.raised =>
                /\ (op.output # op.input
                    /\ (op.overwrite \/ op.output \notin DOMAIN disk0)) =>
                       /\ exit = "ok"
                       /\ op.output \in DOMAIN disk
                       /\ disk[op.output] = Pdf(Without(pages, P, 1))
                       /\ Len(disk[op.output].pages) = Len(pages) - Cardinality(P)
                /\ (op.output = op.input /\ op.overwrite /\ P = {}) => disk = disk0

\* the first of two pages has been cut into another file
C9_Witness ==
    /\ Done
    /\ op.name = "cut"
    /\ op.output = "o.pdf"
    /\ op.range = <<"1">>
    /\ Holds(disk0, "a.pdf", Pdf(<<<<"a", 1>>, <<"a", 2>>>>))
    /\ Holds(disk, "o.pdf", Pdf(<<<<"a", 2>>>>))

\* C10: when the policy allows the output and the selection resolves, paste
\* writes an output iff 1 <= insert_before_page <= n + 1, and the output is
\* the target pages before the position, the selected source pages in
\* ascending order, then the other target pages; outside the interval
\* nothing is written.  (A range given as the empty string is C11's case.)
C10_PasteSplicesAtPosition ==
    (/\ Done
     /\ op.name = "paste"
     /\ op.fault = "none"
     /\ Readable(disk0, op.input)
     /\ Readable(disk0, op.source)
     /\ \/ op.overwrite
        \/ op.output \notin {op.input, op.source} /\ op.output \notin DOMAIN disk0
     /\ op.has_range => op.range # <<>>) =>
        LET T == disk0[op.input].pages
            S == disk0[op.source].pages
            sel == parse_page_range(op.range, Len(S))
            chosen == IF op.has_range THEN PagesAt(S, sel.val) ELSE S
        IN  (op.has_range => ~sel.raised) =>
                IF 1 <= op.at /\ op.at <= Len(T) + 1
                THEN /\ exit = "ok"
                     /\ op.output \in DOMAIN disk
                     /\ disk[op.output]
                            = Pdf(SubSeq(T, 1, op.at - 1) \o chosen
                                  \o SubSeq(T, op.at, Len(T)))
                ELSE /\ disk = disk0
                     /\ NothingTouched
                     /\ exit # "ok"

\* two selected source pages have been appended after the two target pages
C10_Witness ==
    /\ Done
    /\ op.name = "paste"
    /\ op.at = 3
    /\ op.range = <<"2", ",", "1">>
    /\ op.output = "o.pdf"
    /\ Holds(disk, "o.pdf", Pdf(<<<<"a", 1>>, <<"a", 2>>, <<"b", 1>>, <<"b", 2>>>>))

\* the output path may be written: overwrite is set, or it is neither an
\* input nor an existing file
PastePermitted ==
    \/ op.overwrite
    \/ op.output \notin {op.input, op.source} /\ op.output \notin DOMAIN disk0

\* C11: a paste given a source range whose selection is empty (the empty
\* expression included) or invalid (malformed, out of bounds) does not fail:
\* it inserts no source page and writes an output holding the target's pages.
C11_EmptyOrInvalidSelectionWritesTarget ==
    (/\ Done
     /\ op.name = "paste"
     /\ op.has_range
     /\ op.fault = "none"
     /\ Readable(disk0, op.input)
     /\ Readable(disk0, op.source)
     /\ PastePermitted
     /\ 1 <= op.at /\ op.at <= Len(disk0[op.input].pages) + 1) =>
        LET sel == parse_page_range(op.range, Len(disk0[op.source].pages))
        IN  (sel.raised \/ sel.val = <<>>) =>
                /\ exit = "ok"
                /\ Holds(disk, op.output, Pdf(disk0[op.input].pages))

\* the part of C11 the code keeps: a range that is not the empty string and
\* resolves to no page, or any range over a source without pages
C11_BlankSelectionWritesTarget ==
    (/\ Done
     /\ op.name = "paste"
     /\ op.has_range
     /\ op.range # <<>>
     /\ op.fault = "none"
     /\ Readable(disk0, op.input)
     /\ Readable(disk0, op.source)
     /\ PastePermitted
     /\ 1 <= op.at /\ op.at <= Len(disk0[op.input].pages) + 1) =>
        LET ns == Len(disk0[op.source].pages)
            sel == parse_page_range(op.range, ns)
        IN  (ns = 0 \/ (~sel.raised /\ sel.val = <<>>)) =>
                /\ exit = "ok"
                /\ Holds(disk, op.output, Pdf(disk0[op.input].pages))

\* the output path of a merge may be written
MergePermitted ==
    \/ op.overwrite
    \/ op.output \notin OpInputs(op) /\ op.output \notin DOMAIN disk0

\* a source that exists, is not zero-length, is readable and has a page
UsableSource(d, p) == Readable(d, p) /\ Len(d[p].pages) >= 1

\* the pages of the usable sources among ins, from the i-th on, in list order
RECURSIVE ConcatUsable(_, _, _)
ConcatUsable(d, ins, i) ==
    IF i > Len(ins) THEN <<>>
    ELSE (IF UsableSource(d, ins[i]) THEN d[ins[i]].pages ELSE <<>>)
             \o ConcatUsable(d, ins, i + 1)

\* C12: a permitted merge of a list with at least one usable source writes
\* the concatenation, in list order, of the pages of exactly the usable
\* sources; missing, zero-length, unreadable and zero-page sources are
\* skipped without aborting the merge or reordering the others.
C12_MergeConcatenatesUsableSources ==
    (/\ Done
     /\ op.name = "merge"
     /\ op.fault = "none"
     /\ MergePermitted
     /\ \E p \in OpInputs(op) : UsableSource(disk0, p)) =>
        /\ exit = "ok"
        /\ Holds(disk, op.output, Pdf(ConcatUsable(disk0, op.inputs, 1)))

\* b.pdf, a missing o.pdf and a.pdf have been merged into b then a
C12_Witness ==
    /\ Done
    /\ op.name = "merge"
    /\ op.inputs = <<"b.pdf", "o.pdf", "a.pdf">>
    /\ "o.pdf" \notin DOMAIN disk0
    /\ Holds(disk0, "a.pdf", Pdf(<<<<"a", 1>>, <<"a", 2>>>>))
    /\ Holds(disk0, "b.pdf", Pdf(<<<<"b", 1>>>>))
    /\ Holds(disk, "o.pdf", Pdf(<<<<"b", 1>>, <<"a", 1>>, <<"a", 2>>>>))

\* C13: a merge whose every source is skipped fails and neither creates nor
\* changes the output path, also with overwrite and an output that names an
\* existing file or one of the inputs.
C13_AllSkippedLeavesOutputAlone ==
    (/\ Done
     /\ op.name = "merge"
     /\ \A p \in OpInputs(op) : ~UsableSource(disk0, p)) =>
        /\ exit # "ok"
        /\ disk = disk0
        /\ \A i \in 1..Len(log) : ~Touches(log[i], op.output)

\* a merge of a zero-length file and a file without pages onto the existing
\* o.pdf, with overwrite, has failed and left o.pdf as it was
C13_Witness ==
    /\ Done
    /\ op.name = "merge"
    /\ op.overwrite
    /\ op.fault = "none"
    /\ op.inputs = <<"a.pdf", "b.pdf">>
    /\ op.output = "o.pdf"
    /\ Holds(disk0, "a.pdf", ZeroBytes)
    /\ Holds(disk0, "b.pdf", Pdf(<<>>))
    /\ Holds(disk0, "o.pdf", Pdf(<<<<"o", 1>>>>))
    /\ Holds(disk, "o.pdf", Pdf(<<<<"o", 1>>>>))
    /\ exit = "no_valid_input"

\* the command has ended in an error: an invalid range, a read error, a
\* write error
Failed == exit \in Faults \ {"none"}

\* an event that creates the file at path p or writes into it
Writes(e, p) ==
    \/ e.ev \in {"open_wb", "write", "mktemp"} /\ e.path = p
    \/ e.ev \in {"copy", "move"} /\ e.to = p

\* C14: when extract, cut, paste or split ends in an error, no output file
\* created or written during the invocation remains: every file on the disk
\* that the command has written (its temporary files aside, which are C17's)
\* is the file that was there before.
C14_FailureLeavesNoOutput ==
    (Done /\ op.name \in {"extract", "cut", "paste", "split"} /\ Failed) =>
        \A p \in DOMAIN disk \ {TmpOut, TmpSrc} :
            (\E i \in 1..Len(log) : Writes(log[i], p)) => Holds(disk0, p, disk[p])

(***************************************************************************)
(* Whitespace and letter case in the tokens (checked under SpecResolve).   *)
(***************************************************************************)
\* a token without its surrounding spaces, in lower case
PlainToken(tok) == Lower(Strip(tok))

\* a term written without spaces in lower case: each token made plain
PlainTerm(term) ==
    IF Contains(term, "-")
    THEN PlainToken(SplitOnce(term, "-")[1]) \o <<"-">>
             \o PlainToken(SplitOnce(term, "-")[2])
    ELSE PlainToken(term)

\* the call has ended as the call on the expression s ends
SameOutcomeAs(s) ==
    /\ result.raised = parse_page_range(s, total_pages).raised
    /\ result.val = parse_page_range(s, total_pages).val

\* C16: for total_pages >= 1, a term whose tokens carry surrounding spaces or
\* upper-case letters resolves to the same positions as the term written
\* without spaces in lower case.
C16_PaddedTokensResolveAlike ==
    (pc = "return" /\ total_pages >= 1 /\ range_str \in SingleTerms)
        => SameOutcomeAs(PlainTerm(range_str))

\* an endpoint of a range that is the literal end with spaces around it
PaddedEnd(tok) == PlainToken(tok) = S_end /\ Lower(tok) # S_end

\* the part of C16 the code keeps: every term but a range with a padded end
C16_AlikeButPaddedEndInRange ==
    (/\ pc = "return"
     /\ total_pages >= 1
     /\ range_str \in SingleTerms
     /\ Contains(range_str, "-") =>
            \A tok \in TokensOf(Lower(Strip(range_str))) : ~PaddedEnd(tok))
        => SameOutcomeAs(PlainTerm(range_str))

(***************************************************************************)
(* Temporary files (checked under Spec).                                   *)
(***************************************************************************)
\* the temporary files the command has created
TempsCreated == { log[i].path : i \in { j \in 1..Len(log) : log[j].ev = "mktemp" } }

\* C17: when cut or paste returns, on every exit path, every temporary file
\* the invocation has created (the file of the atomic write, the file of the
\* source subset) has been removed.
C17_TempFilesRemovedOnReturn ==
    (Done /\ op.name \in {"cut", "paste"}) =>
        \A p \in TempsCreated : p \notin DOMAIN disk

\* the part of C17 the code keeps: paste on every exit path, cut when the
\* write succeeds or raises an exception of no named kind
C17_PasteAndOtherExceptions ==
    (/\ Done
     /\ op.name \in {"cut", "paste"}
     /\ op.name = "cut" => exit \notin {"FileNotFoundError", "PdfReadError", "ValueError"})
        => \A p \in TempsCreated : p \notin DOMAIN disk

(***************************************************************************)
(* The crop box (checked under SpecCrop).                                  *)
(***************************************************************************)
\* the crop box of page p is min(tw, W) wide and min(th, H) high and leaves
\* the margins (W - min(tw, W))/2 and (H - min(th, H))/2 inside the page's
\* original box; a page not larger than the target keeps its original box
CenteredInOriginalBox(p) ==
    LET W == Width(p.mediabox)
        H == Height(p.mediabox)
        tw == TargetPoints(target_inches.width)
        th == TargetPoints(target_inches.height)
    IN  /\ Width(p.cropbox) = Min(tw, W)
        /\ Height(p.cropbox) = Min(th, H)
        /\ 2 * (p.cropbox.llx - p.mediabox.llx) = W - Min(tw, W)
        /\ 2 * (p.mediabox.urx - p.cropbox.urx) = W - Min(tw, W)
        /\ 2 * (p.cropbox.lly - p.mediabox.lly) = H - Min(th, H)
        /\ 2 * (p.mediabox.ury - p.cropbox.ury) = H - Min(th, H)
        /\ (W <= tw /\ H <= th) => p.cropbox = p.mediabox

\* C15: every page the crop has processed has a crop box of width
\* min(tw, W) and height min(th, H) lying inside the original box with the
\* margin (W - min(tw, W))/2 left and right and (H - min(th, H))/2 below and
\* above; a page with W <= tw and H <= th has a crop box identical to its
\* original box, wherever the lower-left corner of the original box is.
C15_CropBoxCenteredInOriginal ==
    \A i \in 1..Len(writer_pages) : CenteredInOriginalBox(writer_pages[i])

\* the part of C15 the code keeps: pages whose original box has its
\* lower-left corner at the origin
C15_CenteredWhenCornerAtOrigin ==
    \A i \in 1..Len(writer_pages) :
        (writer_pages[i].mediabox.llx = 0 /\ writer_pages[i].mediabox.lly = 0)
            => CenteredInOriginalBox(writer_pages[i])

====
